---- MODULE Spec2Model ----
(***************************************************************************)
(* Model of src/Projectsim.py: a SimPy discrete-event simulation of a      *)
(* grocery store with NUM_CHECKOUT_LANES single-server checkout lanes, of  *)
(* which active_lanes are open to new customers.                           *)
(*                                                                         *)
(* The SimPy kernel the program runs on is modelled by what the program    *)
(* uses of it: the event heap ordered by (time, priority, insertion),      *)
(* Environment.run(until=...) and Resource(capacity=1) with its users list *)
(* and its FIFO put queue.  Every action is the handler of one event       *)
(* popped from the heap: the code that one process runs between two        *)
(* yields.                                                                 *)
(*                                                                         *)
(* Simulated time is an integer and the two random.expovariate samples are *)
(* drawn from small sets that contain 0 (expovariate returns               *)
(* -log(1 - random()) / lambd, which is 0.0 when random() returns 0.0).    *)
(***************************************************************************)
EXTENDS Integers, Sequences, FiniteSets, TLC

\* ---- program constants --------------------------------------------------
\* src/Projectsim.py:9
NUM_CHECKOUT_LANES == 3

\* ---- bounds of the model --------------------------------------------------
\* src/Projectsim.py:10 sets MAX_QUEUE = 10; the model scales it down.
MAX_QUEUE == 2
\* src/Projectsim.py:11 sets SIMULATION_TIME = 600; the model scales it down.
SIMULATION_TIME == 3
\* setup() numbers customers without limit; the model stops it after this many.
MaxCustomers == 7
\* largest sampled interarrival delay and service time
MaxInterArrival == 1
MaxService == 1

InterArrivalSamples == 0..MaxInterArrival
ServiceSamples == 0..MaxService
Customers == 1..MaxCustomers

\* simpy.core: event priorities
URGENT == 0
NORMAL == 1

VARIABLES
    num_lanes,              \* len(store.checkout_lanes)
    now,                    \* env.now
    queue,                  \* env._queue, in the order the events will be popped
    status,                 \* of env.run: "running", "stopped" (until reached), "crashed"
    customer_id,            \* setup's counter
    users,                  \* lane -> Resource.users   (lane.count is its length)
    put_queue,              \* lane -> Resource.queue   (waiting requests, FIFO)
    active_lanes,           \* store.active_lanes
    waiting_times,          \* store.waiting_times
    service_times,          \* store.service_times
    average_queue_lengths,  \* store.average_queue_lengths, as <<total, active_lanes>>
    queue_record_times,     \* store.queue_record_times
    log,                    \* the "Lane k opens at time t" lines printed, as <<k, t>>
    pc,                     \* customer -> where its process is
    arrival_time,           \* customer -> arrival_time (-1: not arrived)
    lane_number,            \* customer -> lane_number (-1: none chosen)
    service_time,           \* customer -> service_time sampled (-1: none)
    waiting_time,           \* customer -> waiting_time computed at the grant (-1: none)
    departure_time,         \* customer -> env.now when it left the with block (-1: not yet)
    joined,                 \* lane -> customers in the order they issued request()
    granted                 \* lane -> customers in the order add_waiting_time ran for them

vars == <<num_lanes, now, queue, status, customer_id, users, put_queue, active_lanes,
          waiting_times, service_times, average_queue_lengths, queue_record_times,
          log, pc, arrival_time, lane_number, service_time, waiting_time,
          departure_time, joined, granted>>

storeVars == <<active_lanes, average_queue_lengths, queue_record_times, log>>
laneVars == <<users, put_queue>>
custVars == <<arrival_time, lane_number, joined>>
timeVars == <<waiting_time, departure_time>>

\* ---- the event heap -------------------------------------------------------
Event(t, p, k, c, ok) == [time |-> t, prio |-> p, kind |-> k, who |-> c, ok |-> ok]

\* heap order of simpy.core.Environment.schedule: (time, priority, eid)
Before(a, e) ==
    \/ a.time < e.time
    \/ a.time = e.time /\ a.prio <= e.prio

\* Environment.schedule: the new event has the largest eid, so it goes after
\* every queued event of the same time and priority.
Insert(q, e) ==
    LET k == Cardinality({i \in 1..Len(q) : Before(q[i], e)})
    IN  SubSeq(q, 1, k) \o <<e>> \o SubSeq(q, k + 1, Len(q))

\* a run that stops one time unit before the horizon
InitQueue_Early ==
    Insert(Insert(<<>>, Event(0, URGENT, "init_setup", 0, TRUE)),
           Event(SIMULATION_TIME - 1, URGENT, "stop", 0, TRUE))

\* a run that stops one time unit after the horizon
InitQueue_Late ==
    Insert(Insert(<<>>, Event(0, URGENT, "init_setup", 0, TRUE)),
           Event(SIMULATION_TIME + 1, URGENT, "stop", 0, TRUE))

\* env.process(setup(...)) then env.run(until=SIMULATION_TIME)
InitQueue ==
    Insert(Insert(<<>>, Event(0, URGENT, "init_setup", 0, TRUE)),
           Event(SIMULATION_TIME, URGENT, "stop", 0, TRUE))

Lanes == 0..(num_lanes - 1)

InitCommon ==
    /\ now = 0
    /\ queue = InitQueue
    /\ status = "running"
    /\ customer_id = 0
    /\ users = [l \in Lanes |-> <<>>]
    /\ put_queue = [l \in Lanes |-> <<>>]
    /\ active_lanes = 1
    /\ waiting_times = <<>>
    /\ service_times = <<>>
    /\ average_queue_lengths = <<>>
    /\ queue_record_times = <<>>
    /\ log = <<>>
    /\ pc = [c \in Customers |-> "unborn"]
    /\ arrival_time = [c \in Customers |-> -1]
    /\ lane_number = [c \in Customers |-> -1]
    /\ service_time = [c \in Customers |-> -1]
    /\ waiting_time = [c \in Customers |-> -1]
    /\ departure_time = [c \in Customers |-> -1]
    /\ joined = [l \in Lanes |-> <<>>]
    /\ granted = [l \in Lanes |-> <<>>]

Init ==
    /\ num_lanes = NUM_CHECKOUT_LANES
    /\ InitCommon

\* Environment.step: the event popped next, if the run is still going
Top == Head(queue)
Rest == Tail(queue)
Pops(k) ==
    /\ status = "running"
    /\ queue # <<>>
    /\ Top.kind = k
    /\ now' = Top.time

\* ---- env.run(until=SIMULATION_TIME) ---------------------------------------
\* the until event is popped: StopSimulation, nothing else is processed
Stop ==
    /\ Pops("stop")
    /\ queue' = Rest
    /\ status' = "stopped"
    /\ UNCHANGED <<num_lanes, timeVars, customer_id, laneVars, storeVars, waiting_times,
                   service_times, pc, custVars, service_time, granted>>

\* ---- setup (the arrival process) ------------------------------------------
\* the loop head of setup and its yield env.timeout(expovariate): id customers
\* exist, the clock reads t and d is the sampled interarrival delay
SetupLoop(q, t, id, d) ==
    IF t < SIMULATION_TIME
    THEN IF id < MaxCustomers
         THEN Insert(q, Event(t + d, NORMAL, "timeout_setup", 0, TRUE))
         ELSE q
    ELSE Insert(q, Event(t, NORMAL, "process", 0, TRUE))

\* Initialize(setup) is popped: setup runs to its first yield
SetupStart ==
    /\ Pops("init_setup")
    /\ \E d \in InterArrivalSamples : queue' = SetupLoop(Rest, Top.time, customer_id, d)
    /\ UNCHANGED <<num_lanes, timeVars, status, customer_id, laneVars, storeVars, waiting_times,
                   service_times, pc, custVars, service_time, granted>>

\* setup's timeout is popped: a customer process is started, then the loop
\* goes round to the next timeout
SetupArrival ==
    /\ Pops("timeout_setup")
    /\ customer_id' = customer_id + 1
    /\ pc' = [pc EXCEPT ![customer_id + 1] = "started"]
    /\ \E d \in InterArrivalSamples :
         queue' = SetupLoop(
                     Insert(Rest, Event(Top.time, URGENT, "init_customer",
                                        customer_id + 1, TRUE)),
                     Top.time, customer_id + 1, d)
    /\ UNCHANGED <<num_lanes, timeVars, status, laneVars, storeVars, waiting_times,
                   service_times, custVars, service_time, granted>>

\* ---- GroceryStore ---------------------------------------------------------
\* lane.count + len(lane.queue)
Load(i) == Len(users[i]) + Len(put_queue[i])

\* manage_checkouts with the second test reading lane 1's load again
ManageCheckouts_SameLane(t) ==
    LET open2 == Load(0) >= MAX_QUEUE
        a1 == IF open2 THEN 2 ELSE active_lanes
        log1 == IF open2 THEN Append(log, <<2, t>>) ELSE log
    IN  IF a1 >= 2 /\ Load(0) >= MAX_QUEUE
        THEN [active |-> 3, log |-> Append(log1, <<3, t>>), err |-> FALSE]
        ELSE [active |-> a1, log |-> log1, err |-> FALSE]

\* manage_checkouts with the first test reading lane 2's load
ManageCheckouts_WrongLane(t) ==
    LET open2 == Load(1) >= MAX_QUEUE
        a1 == IF open2 THEN 2 ELSE active_lanes
        log1 == IF open2 THEN Append(log, <<2, t>>) ELSE log
    IN  IF a1 >= 2 /\ Load(1) >= MAX_QUEUE
        THEN [active |-> 3, log |-> Append(log1, <<3, t>>), err |-> FALSE]
        ELSE [active |-> a1, log |-> log1, err |-> FALSE]

\* manage_checkouts with > in place of >=
ManageCheckouts_Strict(t) ==
    LET open2 == Load(0) > MAX_QUEUE
        a1 == IF open2 THEN 2 ELSE active_lanes
        log1 == IF open2 THEN Append(log, <<2, t>>) ELSE log
    IN  IF a1 >= 2 /\ Load(1) > MAX_QUEUE
        THEN [active |-> 3, log |-> Append(log1, <<3, t>>), err |-> FALSE]
        ELSE [active |-> a1, log |-> log1, err |-> FALSE]

\* manage_checkouts at time t: the new active_lanes, the lines printed, and
\* whether checkout_lanes[0] or checkout_lanes[1] raised IndexError
ManageCheckouts(t) ==
    IF 0 \notin Lanes
    THEN [active |-> active_lanes, log |-> log, err |-> TRUE]
    ELSE
    LET open2 == Load(0) >= MAX_QUEUE
        a1 == IF open2 THEN 2 ELSE active_lanes
        log1 == IF open2 THEN Append(log, <<2, t>>) ELSE log
    IN  IF a1 >= 2
        THEN IF 1 \notin Lanes
             THEN [active |-> a1, log |-> log1, err |-> TRUE]
             ELSE IF Load(1) >= MAX_QUEUE
                  THEN [active |-> 3, log |-> Append(log1, <<3, t>>), err |-> FALSE]
                  ELSE [active |-> a1, log |-> log1, err |-> FALSE]
        ELSE [active |-> a1, log |-> log1, err |-> FALSE]

\* a total that counts the queues and leaves out the customers in service
RECURSIVE TotalLoad_QueueOnly(_)
TotalLoad_QueueOnly(n) ==
    IF n = 0 THEN 0
    ELSE TotalLoad_QueueOnly(n - 1)
           + (IF n - 1 \in Lanes THEN Len(put_queue[n - 1]) ELSE 0)

\* sum(len(lane.queue) + lane.count for lane in checkout_lanes[:n])
RECURSIVE TotalLoad(_)
TotalLoad(n) ==
    IF n = 0 THEN 0
    ELSE TotalLoad(n - 1) + (IF n - 1 \in Lanes THEN Load(n - 1) ELSE 0)

\* a minimum search that lets a later lane of equal load win
RECURSIVE MinFrom_LastWins(_, _, _)
MinFrom_LastWins(i, best, n) ==
    IF i >= n THEN best
    ELSE MinFrom_LastWins(i + 1, IF Load(i) <= Load(best) THEN i ELSE best, n)

\* min(range(n), key=load) from index i on, best being the minimum so far:
\* a later lane replaces it only with a strictly smaller load
RECURSIVE MinFrom(_, _, _)
MinFrom(i, best, n) ==
    IF i >= n THEN best
    ELSE MinFrom(i + 1, IF Load(i) < Load(best) THEN i ELSE best, n)

\* the lane min(range(store.active_lanes), key=...) returns
MinLane(n) == MinFrom(1, 0, n)

\* a grant that does not look at the capacity
TriggerPut_NoCapacity(l, us, pq, q, t) ==
    IF pq # <<>>
    THEN [users |-> Append(us, Head(pq)),
          put_queue |-> Tail(pq),
          queue |-> Insert(q, Event(t, NORMAL, "request", Head(pq), TRUE))]
    ELSE [users |-> us, put_queue |-> pq, queue |-> q]

\* a grant that serves the newest request first
TriggerPut_Lifo(l, us, pq, q, t) ==
    IF pq # <<>> /\ Len(us) < 1
    THEN [users |-> Append(us, pq[Len(pq)]),
          put_queue |-> SubSeq(pq, 1, Len(pq) - 1),
          queue |-> Insert(q, Event(t, NORMAL, "request", pq[Len(pq)], TRUE))]
    ELSE [users |-> us, put_queue |-> pq, queue |-> q]

\* a grant that reaches the requester one time unit later
TriggerPut_Delayed(l, us, pq, q, t) ==
    IF pq # <<>> /\ Len(us) < 1
    THEN [users |-> Append(us, Head(pq)),
          put_queue |-> Tail(pq),
          queue |-> Insert(q, Event(t + 1, NORMAL, "request", Head(pq), TRUE))]
    ELSE [users |-> us, put_queue |-> pq, queue |-> q]

\* Resource._trigger_put on lane l with users us and put queue pq: the head
\* request is granted (users.append, succeed) while the server is free
TriggerPut(l, us, pq, q, t) ==
    IF pq # <<>> /\ Len(us) < 1
    THEN [users |-> Append(us, Head(pq)),
          put_queue |-> Tail(pq),
          queue |-> Insert(q, Event(t, NORMAL, "request", Head(pq), TRUE))]
    ELSE [users |-> us, put_queue |-> pq, queue |-> q]

\* ---- customer ---------------------------------------------------------------
\* Initialize(customer) is popped: the customer runs to its yield request
CustomerArrive ==
    /\ Pops("init_customer")
    /\ LET c == Top.who
           t == Top.time
           m == ManageCheckouts(t)
           failed == Insert(Rest, Event(t, NORMAL, "process", c, FALSE))
       IN  /\ arrival_time' = [arrival_time EXCEPT ![c] = t]
           /\ active_lanes' = m.active
           /\ log' = m.log
           /\ IF m.err
              THEN \* IndexError in manage_checkouts
                   /\ pc' = [pc EXCEPT ![c] = "failed"]
                   /\ queue' = failed
                   /\ UNCHANGED <<laneVars, average_queue_lengths, queue_record_times,
                                  lane_number, joined>>
              ELSE /\ average_queue_lengths' =
                        Append(average_queue_lengths, <<TotalLoad(m.active), m.active>>)
                   /\ queue_record_times' = Append(queue_record_times, t)
                   /\ IF m.active > num_lanes
                      THEN \* IndexError in the key of min()
                           /\ pc' = [pc EXCEPT ![c] = "failed"]
                           /\ queue' = failed
                           /\ UNCHANGED <<laneVars, lane_number, joined>>
                      ELSE LET l == MinLane(m.active)
                               r == TriggerPut(l, users[l], Append(put_queue[l], c), Rest, t)
                           IN  /\ lane_number' = [lane_number EXCEPT ![c] = l]
                               /\ joined' = [joined EXCEPT ![l] = Append(@, c)]
                               /\ users' = [users EXCEPT ![l] = r.users]
                               /\ put_queue' = [put_queue EXCEPT ![l] = r.put_queue]
                               /\ queue' = r.queue
                               /\ pc' = [pc EXCEPT ![c] = "waiting"]
    /\ UNCHANGED <<num_lanes, timeVars, status, customer_id, waiting_times, service_times,
                   service_time, granted>>

\* a waiting time taken the wrong way round
WaitingTime_Reversed(c, t) == arrival_time[c] - t

\* waiting_time = env.now - arrival_time, at time t
WaitingTime(c, t) == t - arrival_time[c]

\* the request event is popped: the customer resumes after yield request
RequestGranted ==
    /\ Pops("request")
    /\ LET c == Top.who
           t == Top.time
       IN  /\ waiting_time' = [waiting_time EXCEPT ![c] = WaitingTime(c, t)]
           /\ waiting_times' = Append(waiting_times, WaitingTime(c, t))
           /\ granted' = [granted EXCEPT ![lane_number[c]] = Append(@, c)]
           /\ pc' = [pc EXCEPT ![c] = "granted"]
           /\ queue' = Insert(Rest, Event(t, URGENT, "init_checkout", c, TRUE))
    /\ UNCHANGED <<num_lanes, departure_time, status, customer_id, laneVars, storeVars, service_times,
                   custVars, service_time>>

\* Initialize(checkout_customer) is popped: the service time is sampled
CheckoutStart ==
    /\ Pops("init_checkout")
    /\ \E st \in ServiceSamples :
         /\ service_time' = [service_time EXCEPT ![Top.who] = st]
         /\ queue' = Insert(Rest, Event(Top.time + st, NORMAL, "timeout_checkout",
                                        Top.who, TRUE))
    /\ pc' = [pc EXCEPT ![Top.who] = "service"]
    /\ UNCHANGED <<num_lanes, timeVars, status, customer_id, laneVars, storeVars, waiting_times,
                   service_times, custVars, granted>>

\* a service time that replaces the list in place of being appended to it
RecordService_Replace(c) == <<service_time[c]>>

\* a service time recorded twice
RecordService_Twice(c) == Append(Append(service_times, service_time[c]), service_time[c])

\* what checkout_customer appends to service_times after its timeout
RecordService(c) == Append(service_times, service_time[c])

\* the service timeout is popped: checkout_customer records and returns
CheckoutDone ==
    /\ Pops("timeout_checkout")
    /\ service_times' = RecordService(Top.who)
    /\ pc' = [pc EXCEPT ![Top.who] = "checkedout"]
    /\ queue' = Insert(Rest, Event(Top.time, NORMAL, "checkout_proc", Top.who, TRUE))
    /\ UNCHANGED <<num_lanes, timeVars, status, customer_id, laneVars, storeVars, waiting_times,
                   custVars, service_time, granted>>

\* users.remove(request): the first occurrence goes, none if there is none
Remove(us, c) ==
    LET at == {i \in 1..Len(us) : us[i] = c}
    IN  IF at = {} THEN us
        ELSE LET k == CHOOSE i \in at : \A j \in at : i <= j
             IN  SubSeq(us, 1, k - 1) \o SubSeq(us, k + 1, Len(us))

\* the checkout process event is popped: the customer leaves the with block
\* (Request.__exit__ -> release) and returns
CustomerRelease ==
    /\ Pops("checkout_proc")
    /\ LET c == Top.who
           t == Top.time
           l == lane_number[c]
       IN  /\ users' = [users EXCEPT ![l] = Remove(@, c)]
           /\ departure_time' = [departure_time EXCEPT ![c] = t]
           /\ pc' = [pc EXCEPT ![c] = "done"]
           /\ queue' = Insert(Insert(Rest, Event(t, NORMAL, "release", c, TRUE)),
                              Event(t, NORMAL, "process", c, TRUE))
    /\ UNCHANGED <<num_lanes, waiting_time, status, customer_id, put_queue, storeVars, waiting_times,
                   service_times, custVars, service_time, granted>>

\* the Release event is popped: its callback _trigger_put serves the queue
ReleaseDone ==
    /\ Pops("release")
    /\ LET l == lane_number[Top.who]
           r == TriggerPut(l, users[l], put_queue[l], Rest, Top.time)
       IN  /\ users' = [users EXCEPT ![l] = r.users]
           /\ put_queue' = [put_queue EXCEPT ![l] = r.put_queue]
           /\ queue' = r.queue
    /\ UNCHANGED <<num_lanes, timeVars, status, customer_id, storeVars, waiting_times,
                   service_times, pc, custVars, service_time, granted>>

\* the event of a finished process is popped: nothing waits for it; step()
\* re-raises the exception of a failed one and the run ends
ProcessEnd ==
    /\ Pops("process")
    /\ queue' = Rest
    /\ status' = IF Top.ok THEN status ELSE "crashed"
    /\ UNCHANGED <<num_lanes, timeVars, customer_id, laneVars, storeVars, waiting_times,
                   service_times, pc, custVars, service_time, granted>>

Next ==
    \/ Stop
    \/ SetupStart
    \/ SetupArrival
    \/ CustomerArrive
    \/ RequestGranted
    \/ CheckoutStart
    \/ CheckoutDone
    \/ CustomerRelease
    \/ ReleaseDone
    \/ ProcessEnd

Spec == Init /\ [][Next]_vars

\* the same program with NUM_CHECKOUT_LANES set to any value from 1 to 3
InitLanes ==
    /\ num_lanes \in 1..NUM_CHECKOUT_LANES
    /\ InitCommon

SpecLanes == InitLanes /\ [][Next]_vars

\* the same program with NUM_CHECKOUT_LANES set to any value from 0 to 3
InitConfig ==
    /\ num_lanes \in 0..NUM_CHECKOUT_LANES
    /\ InitCommon

SpecConfig == InitConfig /\ [][Next]_vars

\* ---- claims ---------------------------------------------------------------
\* the customers whose process has run (arrival_time is set)
Arrived == {c \in Customers : arrival_time[c] >= 0}

\* a step in which customer c's process starts: it runs manage_checkouts,
\* update_queue_stats and the routing
Arrives(c) == pc[c] = "started" /\ pc'[c] # "started"

\* C1: active_lanes never decreases from one state to the next, so a lane
\* that was opened is never closed again.
C1_NonDecreasing == [][active_lanes' >= active_lanes]_vars

\* the events still queued for customer c
Pending(c, k) == {i \in 1..Len(queue) : queue[i].who = c /\ queue[i].kind = k}

InQueue(c, l) == \E i \in 1..Len(put_queue[l]) : put_queue[l][i] = c
InUsers(c, l) == \E i \in 1..Len(users[l]) : users[l][i] = c

WithPc(p) == {c \in Customers : pc[c] = p}

Opened == {log[i][1] : i \in 1..Len(log)}

\* C4: one step raises active_lanes by at most one, and lane 3 is never
\* active unless the opening of lane 2 was printed before.
C4_OneLaneAtATime ==
    [][/\ active_lanes' <= active_lanes + 1
       /\ (active_lanes' = 3 => 2 \in Opened')]_vars

C4_Witness == active_lanes = 3 /\ Opened = {2, 3}

\* C5: active_lanes changes only when a customer arrives; the arrival that
\* finds one lane active opens lane 2 exactly if lane 1's load is >=
\* MAX_QUEUE; as long as lane 3 has never opened, an arrival opens it exactly
\* if it finds two lanes active and lane 2's load >= MAX_QUEUE; and the lane
\* just opened, which is empty, is open to the arriving customer: it is
\* routed there unless a lower lane is empty too.
C5_OpensAtThreshold ==
    [][/\ active_lanes' # active_lanes => \E c \in Customers : Arrives(c)
       /\ \A c \in Customers : Arrives(c) =>
            /\ active_lanes = 1 =>
                 /\ active_lanes' >= 2 <=> Load(0) >= MAX_QUEUE
                 /\ active_lanes' = 2 => lane_number'[c] = 1
            /\ 3 \notin Opened =>
                 /\ active_lanes' = 3 <=> (active_lanes = 2 /\ Load(1) >= MAX_QUEUE)
                 /\ active_lanes' = 3 =>
                      lane_number'[c] = IF Load(0) = 0 THEN 0 ELSE 2]_vars

C5_Witness ==
    /\ Opened = {2, 3}
    /\ \E c \in Customers : lane_number[c] = 2
    /\ \E c \in Customers : lane_number[c] = 1

\* C6: active_lanes is at least 1 and at most the number of lanes, whatever
\* the number of lanes is.
C6_ActiveWithinLanes == 1 <= active_lanes /\ active_lanes <= num_lanes

\* C7: an arriving customer is routed to an active lane whose load at the
\* arrival is minimal among the active lanes, and to the lowest such lane.
C7_ShortestLowestLane ==
    [][\A c \in Customers : Arrives(c) /\ pc'[c] = "waiting" =>
         LET l == lane_number'[c]
         IN  /\ l \in 0..(active_lanes' - 1)
             /\ \A j \in 0..(active_lanes' - 1) :
                  /\ Load(l) <= Load(j)
                  /\ j < l => Load(j) > Load(l)]_vars

\* a customer found the two active lanes empty and went to lane 1 (index 0),
\* and another found a shorter lane behind a longer one
C7_Witness ==
    /\ \E c \in Arrived : /\ c <= Len(average_queue_lengths)
                          /\ average_queue_lengths[c] = <<0, 2>>
                          /\ lane_number[c] = 0
    /\ \E c \in Arrived : lane_number[c] = 2

\* C8: every customer that has arrived did so strictly before the horizon.
C8_ArrivalsBeforeHorizon ==
    \A c \in Customers : arrival_time[c] < SIMULATION_TIME

\* the run has ended with setup's timeout due exactly at the horizon
C8_Witness ==
    /\ status = "stopped"
    /\ Arrived # {}
    /\ \E i \in 1..Len(queue) : /\ queue[i].kind = "timeout_setup"
                                /\ queue[i].time = SIMULATION_TIME

\* the customers between the grant of a lane (users.append) and its release
Holders(l) ==
    {c \in Customers : InUsers(c, l)}
        \cup {c \in Customers : lane_number[c] = l
                                  /\ pc[c] \in {"granted", "service", "checkedout"}}

\* C9: at most one customer holds the server of a lane.
C9_MutualExclusion ==
    \A l \in Lanes : Len(users[l]) <= 1 /\ Cardinality(Holders(l)) <= 1

C9_Witness ==
    \E l \in Lanes : Cardinality(Holders(l)) = 1 /\ Len(put_queue[l]) >= 2

\* the holder of lane l whose request event has not been popped yet
GrantPending(l) == SelectSeq(users[l], LAMBDA c : pc[c] = "waiting")

\* C10: in every lane the customers that issued a request are, in that order:
\* those whose wait time was recorded, in the order of recording; then the
\* one granted the server and not yet resumed; then those still queued.  So
\* no customer is granted before one that joined the lane earlier.
C10_Fifo ==
    \A l \in Lanes : joined[l] = granted[l] \o GrantPending(l) \o put_queue[l]

\* a customer joined a lane whose server was free while another was queued
\* there, and the queued one got the server
C10_Witness ==
    \E l \in Lanes :
        /\ Len(granted[l]) >= 2
        /\ GrantPending(l) # <<>>
        /\ put_queue[l] # <<>>

Max(a, b) == IF a >= b THEN a ELSE b

\* a lane whose server is free while customers are queued, or whose grant
\* has not reached the customer yet
HandoverOpen(l) ==
    \/ users[l] = <<>> /\ put_queue[l] # <<>>
    \/ GrantPending(l) # <<>>

\* C11: the first customer of a lane waits 0; each later one waits from its
\* arrival to the departure of the customer granted before it (0 if that one
\* had left already); and the clock never advances while a lane has a free
\* server and a non-empty queue, or a grant that has not been delivered.
C11_HandoverWithoutDelay ==
    /\ [](\A l \in Lanes : \A i \in 1..Len(granted[l]) :
            LET c == granted[l][i]
            IN  IF i = 1
                THEN waiting_time[c] = 0
                ELSE LET p == granted[l][i - 1]
                     IN  /\ departure_time[p] >= 0
                         /\ waiting_time[c] =
                              Max(0, departure_time[p] - arrival_time[c]))
    /\ [][now' > now => \A l \in Lanes : ~ HandoverOpen(l)]_vars

\* a customer that queued was granted at the departure of the one before it
C11_Witness ==
    \E l \in Lanes : \E i \in 2..Len(granted[l]) :
        /\ waiting_time[granted[l][i]] > 0
        /\ waiting_time[granted[l][i]] =
             departure_time[granted[l][i - 1]] - arrival_time[granted[l][i]]

\* the loads of the first a of the three lanes, added up
SumActive(a) ==
    Load(0) + (IF a >= 2 THEN Load(1) ELSE 0) + (IF a >= 3 THEN Load(2) ELSE 0)

\* C12: a step records a queue-length sample exactly if a customer arrives
\* in it, and then exactly one: taken at the arrival time, its value is the
\* sum of the loads, as they are before the customer joins a lane, of the
\* lanes below the active_lanes that manage_checkouts leaves, over that
\* active_lanes.  So there are as many samples as customers that arrived.
C12_OneSamplePerArrival ==
    /\ [](/\ Len(average_queue_lengths) = Cardinality(Arrived)
          /\ Len(queue_record_times) = Cardinality(Arrived))
    /\ [][IF \E c \in Customers : Arrives(c)
          THEN /\ average_queue_lengths' =
                    Append(average_queue_lengths,
                           <<SumActive(active_lanes'), active_lanes'>>)
               /\ queue_record_times' = Append(queue_record_times, now')
               /\ \A c \in Customers : Arrives(c) =>
                    /\ arrival_time'[c] = now'
                    /\ \A l \in Lanes : ~ InQueue(c, l) /\ ~ InUsers(c, l)
          ELSE /\ average_queue_lengths' = average_queue_lengths
               /\ queue_record_times' = queue_record_times]_vars

\* the arrival that opened lane 3 sampled the three lanes, two of them loaded
C12_Witness ==
    \E i \in 1..Len(average_queue_lengths) :
        /\ average_queue_lengths[i][2] = 3
        /\ average_queue_lengths[i][1] >= 2 * MAX_QUEUE
        /\ \E j \in 1..Len(log) : log[j] = <<3, queue_record_times[i]>>

\* C13: every recorded wait time and every recorded service time is >= 0,
\* and the clock is never behind the arrival time of a customer.
C13_NonNegativeTimes ==
    /\ \A i \in 1..Len(waiting_times) : waiting_times[i] >= 0
    /\ \A i \in 1..Len(service_times) : service_times[i] >= 0
    /\ \A c \in Arrived : arrival_time[c] <= now /\ waiting_time[c] >= -1

\* a customer has waited and a customer has been served for some time
C13_Witness ==
    /\ \E i \in 1..Len(waiting_times) : waiting_times[i] > 0
    /\ \E i \in 1..Len(service_times) : service_times[i] > 0

\* a configuration the program should not accept: no lane at all
ConfigError == num_lanes < 1

\* C15: with a configuration error nothing runs: the events queued at the
\* start are never popped, no customer is created and nothing is recorded.
C15_ConfigErrorRejected ==
    ConfigError =>
        /\ queue = InitQueue
        /\ customer_id = 0
        /\ Arrived = {}
        /\ waiting_times = <<>> /\ service_times = <<>>
        /\ average_queue_lengths = <<>> /\ queue_record_times = <<>>

\* C16: no sampled duration <= 0 is ever scheduled or recorded: every
\* service time sampled and every service time recorded is > 0, and every
\* customer arrives strictly later than the one before it (the first one
\* strictly later than the start).
C16_NoNonPositiveDuration ==
    /\ \A c \in Customers : service_time[c] # 0
    /\ \A i \in 1..Len(service_times) : service_times[i] > 0
    /\ \A c \in Arrived :
         arrival_time[c] > (IF c = 1 THEN 0 ELSE arrival_time[c - 1])

\* the printed openings of lane k
Openings(k) == {i \in 1..Len(log) : log[i][1] = k}

\* C17: the opening of lane 2 and the opening of lane 3 are each printed at
\* most once in a run, and a step prints an opening only if it raises
\* active_lanes.
C17_OpeningPrintedOnce ==
    /\ [](Cardinality(Openings(2)) <= 1 /\ Cardinality(Openings(3)) <= 1)
    /\ [][Len(log') > Len(log) => active_lanes' > active_lanes]_vars

\* C18: every lane that is not active is empty.
C18_InactiveLanesEmpty ==
    \A l \in Lanes : l >= active_lanes => Load(l) = 0

\* the customers in the queues of the lanes below n, and those of them
\* granted a server whose grant has not been delivered, and the busy lanes
RECURSIVE QueuedBelow(_)
QueuedBelow(n) == IF n = 0 THEN 0 ELSE QueuedBelow(n - 1) + Len(put_queue[n - 1])

RECURSIVE PendingBelow(_)
PendingBelow(n) == IF n = 0 THEN 0 ELSE PendingBelow(n - 1) + Len(GrantPending(n - 1))

BusyLanes == {l \in Lanes : users[l] # <<>>}

\* no event is left at the current simulated time
Quiet ==
    \/ status = "stopped"
    \/ status = "running" /\ queue # <<>> /\ Head(queue).time > now

\* C19 as stated: in every state the customers arrived less the wait times
\* recorded are the customers in the lane queues, and the wait times less
\* the service times recorded are the busy lanes.
C19_CountsTrackState ==
    /\ Cardinality(Arrived) - Len(waiting_times) = QueuedBelow(num_lanes)
    /\ Len(waiting_times) - Len(service_times) = Cardinality(BusyLanes)
    /\ Cardinality(BusyLanes) <= num_lanes

\* C19 as amended: in every state the customers arrived less the wait times
\* recorded are the customers in the lane queues plus those whose grant has
\* not been delivered; the wait times less the service times recorded are
\* the customers between the two recordings, at most one per busy lane; and
\* the two equalities of the claim hold whenever no event is left at the
\* current simulated time.
C19_CountsTrackStateWhenQuiet ==
    LET between == Cardinality(WithPc("granted") \cup WithPc("service"))
    IN  /\ Cardinality(Arrived) - Len(waiting_times)
             = QueuedBelow(num_lanes) + PendingBelow(num_lanes)
        /\ Len(waiting_times) - Len(service_times) = between
        /\ between <= Cardinality(BusyLanes)
        /\ Cardinality(BusyLanes) <= num_lanes
        /\ Quiet => C19_CountsTrackState

\* the clock is about to advance with customers queued, lanes busy and
\* customers already served
C19_Witness ==
    /\ status = "running"
    /\ Quiet
    /\ QueuedBelow(num_lanes) >= 1
    /\ Cardinality(BusyLanes) >= 2
    /\ Len(service_times) >= 1

\* C20: while lane 1 is the only active lane, its load is at most MAX_QUEUE.
C20_SingleLaneLoadBounded ==
    active_lanes = 1 => Load(0) <= MAX_QUEUE

\* lane 1 alone and full: the next arrival opens lane 2
C20_Witness ==
    /\ active_lanes = 1
    /\ Load(0) = MAX_QUEUE
    /\ \E i \in 1..Len(queue) : queue[i].kind = "init_customer"

====
